---- MODULE Spec2Model ----
(***************************************************************************)
(* Presence & social-graph synchronisation of "where the hbll are you".    *)
(* The store is the Firestore collection 'users'.  The local state (the    *)
(* useState values of App) is kept per running instance of App; instance u *)
(* is the browser of user u, and one instance is a shared computer on      *)
(* which any account may sign in.  Every await of a handler is a step of   *)
(* its own, so that handlers interleave exactly where the code suspends.   *)
(* The effects 2a and 2b run with the state change that triggers them.     *)
(***************************************************************************)
EXTENDS Integers, Sequences, FiniteSets, TLC

VARIABLES
  store,          \* users collection: uid -> the document, or NoDoc
  user,           \* useState user: the session's auth email (user.email), or NULL
  uid,            \* useState user: the session's account (user.uid), or NULL
  isInLibrary,    \* useState isInLibrary: the local presence state
  friends,        \* useState friends: the roster, the documents of the last membership emission
  ownSub,         \* the document the own-record listener (2a) is attached to, or NULL
  memberSub,      \* the active membership listeners (2b) of the instance
  auth,           \* onAuthStateChanged callback suspended at an await
  tog,            \* toggleStatus invocation suspended at its updateDoc
  now,            \* the clock, in hours
  requests,       \* useState requests (pending requests, from own snapshot)
  friendEmails,   \* useState friendEmails (from own snapshot / local edits)
  deletingFriend, \* useState deletingFriend: the stored email of the friend, or NULL
  send,           \* sendFriendRequest invocation in flight, per user
  acc,            \* acceptRequest invocation in flight, per user
  rem,            \* finalRemove invocation in flight, per user
  pendingSnap,    \* an emission of the own-record listener is due
  suggestedFriends, \* useState suggestedFriends: the emitted suggestion list
  calcDeps,       \* [friendEmails, user, requests] at the last run of the suggestion effect
  calc,           \* calculateSuggested runs suspended at the stabilizer or at getDocs
  nops,           \* handler invocations so far
  opBudget,       \* handler invocations the behaviour may hold
  fails,          \* number of store calls that have failed so far
  partial,        \* two-write operations whose second write failed after the first committed
  last            \* the handler step that ended an invocation in the last step

vars == <<store, user, uid, isInLibrary, friends, ownSub, memberSub, auth, tog, now,
          requests, friendEmails, deletingFriend, send, acc, rem,
          pendingSnap,
          suggestedFriends, calcDeps, calc, nops, opBudget, fails, partial, last>>

\* the state of the suggestion ranker
ranker == <<suggestedFriends, calcDeps, calc>>

\* the state of the session and of the presence record manager
session == <<uid, isInLibrary, ownSub, auth, tog, now>>

\* the state of the roster assembler
roster == <<friends, memberSub>>

----------------------------------------------------------------------------
(* Bounds of the model *)

\* store calls that may fail (StoreUnavailable) in one behaviour
MaxFails == 1
\* copies of one email the local friendEmails array may already hold when
\* acceptRequest is invoked for it (acceptRequest appends without a check)
MaxDup == 1
\* handler invocations (send, accept, remove) in one behaviour
MaxOps == 4
\* the same, where the suggestion ranker runs too
MaxOpsSuggest == 3
\* handler invocations that may be suspended at an await at the same time
MaxInFlight == 2
\* handler invocations of one user that may be suspended at the same time
MaxPerUser == 1
\* calculateSuggested runs of one user that may be suspended at the same time
MaxCalc == 1
\* button presses (sign-in, sign-out, toggle, send, accept, remove) where
\* sessions begin and end
MaxOpsPresence == 4
\* the latest hour the clock reaches
MaxNow == 4
\* handler invocations over a store that holds friendships
MaxOpsRanker == 2
\* store calls that may fail where sessions begin and end
MaxFailsPresence == 0

----------------------------------------------------------------------------
(* Users, emails, inputs *)

Uids == {"u1", "u2", "u3"}
NULL == "null"

\* lastCheckIn: null (or no such field)
NoTime == -1

\* the 4-hour validity window of a check-in: hoursSinceCheckIn >= 4
StaleHours == 4

\* the clock is read every two hours
ClockStep == 2

\* date-fns differenceInHours on the clock of the model
differenceInHours(later, earlier) == later - earlier

\* what is typed in the "where are you?" field before a check-in (kept lower-cased)
Notes == {"desk"}

\* the instance that is a shared computer
SharedInstance == "u1"

\* the instances that are opened where sessions begin and end: the shared
\* computer and the browser of u2
Instances == {"u1", "u2"}

\* String.prototype.toLowerCase on the strings of the model
toLowerCase(e) == IF e = "C" THEN "c" ELSE e

\* String.prototype.trim on the strings of the model
trim(e) == IF e = " b" THEN "b" ELSE e

\* what can be typed in the add-friend field: the users' addresses, an unknown
\* address, upper case, surrounding blanks and the empty field
RawInputs == {"a", "b", "c", "C", " b", "z", ""}

\* onChange of the add-friend input keeps e.target.value.toLowerCase() in friendEmail
friendEmailInputs == {toLowerCase(r) : r \in RawInputs}

\* currentUser.email of each user's session; u3's provider reports it in mixed case
authEmail(u) == CASE u = "u1" -> "a" [] u = "u2" -> "b" [] OTHER -> "C"

----------------------------------------------------------------------------
(* Arrays and store primitives *)

includes(arr, e) == \E i \in DOMAIN arr : arr[i] = e

Count(arr, e) == Cardinality({i \in DOMAIN arr : arr[i] = e})

\* an arrayUnion that appends without looking (a plain push)
arrayUnionAppends(arr, e) == Append(arr, e)

\* firestore arrayUnion: appends the value unless the array already holds it
arrayUnion(arr, e) == IF includes(arr, e) THEN arr ELSE Append(arr, e)

\* firestore arrayRemove: removes every occurrence of the value
arrayRemove(arr, e) == SelectSeq(arr, LAMBDA x : x # e)

\* query(collection(db,'users'), where('email','==',e)): the matching documents
queryEquals(e) == {v \in Uids : store[v].email = e}

\* the document the new-user branch of onAuthStateChanged writes with setDoc
\* (it has no lastCheckIn and no statusNote field)
newUserDoc(email) ==
  [email |-> toLowerCase(email), friends |-> <<>>, requests |-> <<>>,
   isInLibrary |-> FALSE, lastCheckIn |-> NoTime, statusNote |-> NULL]

\* no document under this id: userSnap.exists() is false, docSnap.data() is undefined
NoDoc ==
  [email |-> NULL, friends |-> <<>>, requests |-> <<>>,
   isInLibrary |-> FALSE, lastCheckIn |-> NoTime, statusNote |-> NULL]

\* getDocs / onSnapshot of a query deliver the documents by document id
UidOrder == <<"u1", "u2", "u3">>

\* Firestore 'in' query limit: friendEmails.slice(0, 30)
InQueryCap == 30

cappedEmails(fe) == SubSeq(fe, 1, IF Len(fe) < InQueryCap THEN Len(fe) ELSE InQueryCap)

\* emails of the documents the 'in' query over cappedEmails returns (the roster)
rosterEmails(u) ==
  {store[v].email : v \in {w \in Uids : includes(cappedEmails(friendEmails[u]), store[w].email)}}

\* the documents a membership query over `emails` returns
friendData(emails) ==
  LET docs == SelectSeq(UidOrder, LAMBDA v : store[v] # NoDoc /\ includes(emails, store[v].email))
  IN  [i \in DOMAIN docs |-> store[docs[i]]]

Idle == [pc |-> "idle", e |-> NULL, tid |-> NULL]
AuthIdle == [pc |-> "idle", uid |-> NULL, email |-> NULL]
TogIdle == [pc |-> "idle", uid |-> NULL, newState |-> FALSE, note |-> NULL]
NoOp == [op |-> "none", by |-> NULL, e |-> NULL, res |-> NULL, pre |-> FALSE]
Ended(op, u, e, res, pre) == [op |-> op, by |-> u, e |-> e, res |-> res, pre |-> pre]

----------------------------------------------------------------------------
(* Initial state: every user has signed in once, so its record exists with *)
(* the defaults of the new-user setup; the sessions of two of the users    *)
(* are running, the third user is signed out (its record can be targeted). *)

Sessions == {{"u1", "u2"}, {"u1", "u3"}, {"u2", "u3"}}

\* the local state of instances whose session (if any) has been established
Established(S) ==
  /\ user = [u \in Uids |-> IF u \in S THEN authEmail(u) ELSE NULL]
  /\ uid = [u \in Uids |-> IF u \in S THEN u ELSE NULL]
  /\ ownSub = [u \in Uids |-> IF u \in S THEN u ELSE NULL]
  /\ isInLibrary = [u \in Uids |-> FALSE]
  /\ friends = [u \in Uids |-> <<>>]
  /\ memberSub = [u \in Uids |-> {}]
  /\ auth = [u \in Uids |-> AuthIdle]
  /\ tog = [u \in Uids |-> TogIdle]
  /\ now = 0

InitWith(budget) ==
  /\ opBudget = budget
  /\ store = [u \in Uids |-> newUserDoc(authEmail(u))]
  /\ \E S \in Sessions : Established(S)
  /\ requests = [u \in Uids |-> <<>>]
  /\ friendEmails = [u \in Uids |-> <<>>]
  /\ deletingFriend = [u \in Uids |-> NULL]
  /\ send = [u \in Uids |-> Idle]
  /\ acc = [u \in Uids |-> Idle]
  /\ rem = [u \in Uids |-> Idle]
  /\ pendingSnap = [u \in Uids |-> FALSE]
  /\ suggestedFriends = [u \in Uids |-> <<>>]
  /\ calcDeps = [u \in Uids |-> <<friendEmails[u], user[u], requests[u]>>]
  /\ calc = [u \in Uids |-> <<>>]
  /\ nops = 0
  /\ fails = 0
  /\ partial = {}
  /\ last = NoOp

\* a committed write to document v: the store changes and, when the document
\* did change, the own-record listeners attached to it have an emission to deliver
Commit(v, doc) ==
  /\ store' = [store EXCEPT ![v] = doc]
  /\ pendingSnap' = [u \in Uids |-> pendingSnap[u] \/ (ownSub[u] = v /\ doc # store[v])]

InFlightOf(u) ==
  Cardinality({h \in {send, acc, rem} : h[u].pc # "idle"})

RECURSIVE Sum(_, _)
Sum(f, S) == IF S = {} THEN 0 ELSE LET x == CHOOSE y \in S : TRUE IN f[x] + Sum(f, S \ {x})

InFlight == Sum([u \in Uids |-> InFlightOf(u)], Uids)

\* a handler is invoked (a button of the signed-in view is pressed)
Invoke(u) ==
  /\ user[u] # NULL
  /\ nops < opBudget
  /\ InFlight < MaxInFlight
  /\ InFlightOf(u) < MaxPerUser
  /\ nops' = nops + 1
  /\ UNCHANGED opBudget

\* a store call rejects (StoreUnavailable)
Failure ==
  /\ fails < MaxFails
  /\ fails' = fails + 1

----------------------------------------------------------------------------
(* 2b. membership listener: the effect on [user, friendEmails] *)

\* an effect 2b whose cleanup is missing: the previous listener stays attached
subscribeWithoutCleanup(subs, emails) == subs \cup {[emails |-> emails, fresh |-> TRUE]}

\* the cleanup of the previous run (unsub) and then onSnapshot(q, ...): the
\* new listener owes its first emission
subscribeMembers(subs, emails) == {[emails |-> emails, fresh |-> TRUE]}

\* an effect 2b that wipes the roster but leaves the listener attached
friendsEffectKeepsListener(u, usr, fe) ==
  IF usr = NULL \/ Len(fe) = 0
  THEN /\ friends' = [friends EXCEPT ![u] = <<>>]
       /\ UNCHANGED memberSub
  ELSE /\ memberSub' = [memberSub EXCEPT ![u] = subscribeMembers(@, cappedEmails(fe))]
       /\ UNCHANGED friends

\* the effect runs for instance u with the new user and friendEmails: with no
\* user or no friends the listener is detached and the roster wiped
friendsEffect(u, usr, fe) ==
  IF usr = NULL \/ Len(fe) = 0
  THEN /\ friends' = [friends EXCEPT ![u] = <<>>]
       /\ memberSub' = [memberSub EXCEPT ![u] = {}]
  ELSE /\ memberSub' = [memberSub EXCEPT ![u] = subscribeMembers(@, cappedEmails(fe))]
       /\ UNCHANGED friends

\* an emission of a membership listener: setFriends(snapshot.docs.map(d => d.data()));
\* a listener emits when it is attached and whenever a document of its query changes.
\* onlyFirst: the listener emits when it is attached and never again.
RosterSnapStep(u, onlyFirst) ==
  /\ \E sub \in memberSub[u] :
       /\ sub.fresh \/ (~onlyFirst /\ friendData(sub.emails) # friends[u])
       /\ friends' = [friends EXCEPT ![u] = friendData(sub.emails)]
       /\ memberSub' = [memberSub EXCEPT ![u] = (@ \ {sub}) \cup {[sub EXCEPT !.fresh = FALSE]}]
  /\ last' = NoOp
  /\ UNCHANGED <<store, user, session, requests, friendEmails, deletingFriend, send, acc, rem,
                 pendingSnap, ranker, nops, opBudget, fails, partial>>

\* a membership listener that reads the query once (a getDocs in place of onSnapshot)
RosterSnapOnce(u) == RosterSnapStep(u, TRUE)

RosterSnap(u) == RosterSnapStep(u, FALSE)

----------------------------------------------------------------------------
(* 2a. own-record listener *)

\* onSnapshot(doc(db,'users',user.uid)): if (data) setRequests, setFriendEmails
SnapOwn(u) ==
  /\ ownSub[u] # NULL
  /\ pendingSnap[u]
  /\ pendingSnap' = [pendingSnap EXCEPT ![u] = FALSE]
  /\ LET data == store[ownSub[u]] IN
       IF data # NoDoc
       THEN /\ requests' = [requests EXCEPT ![u] = data.requests]
            /\ friendEmails' = [friendEmails EXCEPT ![u] = data.friends]
            /\ friendsEffect(u, user[u], data.friends)
       ELSE UNCHANGED <<requests, friendEmails, roster>>
  /\ last' = NoOp
  /\ UNCHANGED <<ranker, nops, opBudget, store, user, session, deletingFriend, send, acc, rem, fails, partial>>

----------------------------------------------------------------------------
(* sendFriendRequest *)

\* the body of sendFriendRequest up to the first await, run on the friendEmail
\* of the render it was created in: empty input returns, the self check alerts,
\* else getDocs is issued
sendFriendRequestBody(u, friendEmail) ==
  LET cleanEmail == toLowerCase(trim(friendEmail)) IN
    IF friendEmail = ""
    THEN /\ last' = Ended("send", u, friendEmail, "noop", FALSE)
         /\ send' = [send EXCEPT ![u] = Idle]
    ELSE IF cleanEmail = user[u]
    THEN /\ last' = Ended("send", u, cleanEmail, "InvalidTarget", FALSE)
         /\ send' = [send EXCEPT ![u] = Idle]
    ELSE /\ send' = [send EXCEPT ![u] = [pc |-> "lookup", e |-> cleanEmail, tid |-> NULL]]
         /\ last' = NoOp

\* the add button next to the input: sendFriendRequest of the current render
sendFriendRequest(u, friendEmail) ==
  /\ send[u].pc = "idle"
  /\ Invoke(u)
  /\ sendFriendRequestBody(u, friendEmail)
  /\ UNCHANGED <<store, user, session, roster, requests, friendEmails, deletingFriend, acc, rem,
                 pendingSnap, ranker, fails, partial>>

\* the add button of the i-th suggestion: setFriendEmail(person.email), and
\* setTimeout(sendFriendRequest, 100) with the sendFriendRequest of the render
\* that is on screen, whose friendEmail is what the input holds at the click
addSuggested(u, i, friendEmail) ==
  /\ send[u].pc = "idle"
  /\ Invoke(u)
  /\ i \in DOMAIN suggestedFriends[u]
  /\ send' = [send EXCEPT ![u] = [pc |-> "timer", e |-> friendEmail, tid |-> NULL,
                                  person |-> suggestedFriends[u][i].email]]
  /\ last' = NoOp
  /\ UNCHANGED <<store, user, session, roster, requests, friendEmails, deletingFriend, acc, rem,
                 pendingSnap, ranker, fails, partial>>

\* the timer of the suggestion's add button fires: the scheduled sendFriendRequest runs
SuggestTimer(u) ==
  /\ send[u].pc = "timer"
  /\ sendFriendRequestBody(u, send[u].e)
  /\ UNCHANGED <<store, user, session, roster, requests, friendEmails, deletingFriend, acc, rem,
                 pendingSnap, ranker, fails, partial, nops, opBudget>>

\* getDocs(q) resolved: not found / already friends / updateDoc issued.
\* writeFirst: the updateDoc is committed before the already-friends check.
SendLookupStep(u, writeFirst) ==
  /\ send[u].pc = "lookup"
  /\ LET q == queryEquals(send[u].e) IN
       \/ /\ q = {}
          /\ send' = [send EXCEPT ![u] = Idle]
          /\ last' = Ended("send", u, send[u].e, "NotFound", FALSE)
          /\ UNCHANGED <<fails, store, pendingSnap>>
       \/ /\ q # {}
          /\ LET targetUser == CHOOSE v \in q : TRUE IN
               /\ IF includes(store[targetUser].friends, user[u])
                  THEN /\ send' = [send EXCEPT ![u] = Idle]
                       /\ last' = Ended("send", u, send[u].e, "AlreadyFriends", FALSE)
                  ELSE /\ send' = [send EXCEPT ![u] = [@ EXCEPT !.pc = "write", !.tid = targetUser]]
                       /\ last' = NoOp
               /\ IF writeFirst
                  THEN Commit(targetUser, [store[targetUser] EXCEPT !.requests = arrayUnion(@, user[u])])
                  ELSE UNCHANGED <<store, pendingSnap>>
          /\ UNCHANGED fails
       \/ /\ Failure
          /\ send' = [send EXCEPT ![u] = Idle]
          /\ last' = Ended("send", u, send[u].e, "error", FALSE)
          /\ UNCHANGED <<store, pendingSnap>>
  /\ UNCHANGED <<ranker, nops, opBudget, user, session, roster, requests, friendEmails,
                 deletingFriend, acc, rem, partial>>

\* a sendFriendRequest that writes the request before it checks the target's friends
SendLookupWriteBeforeCheck(u) == SendLookupStep(u, TRUE)

SendLookup(u) == SendLookupStep(u, FALSE)

\* updateDoc(target, {requests: arrayUnion(user.email)}) resolved
SendWrite(u) ==
  /\ send[u].pc = "write"
  /\ send' = [send EXCEPT ![u] = Idle]
  /\ LET t == send[u].tid IN
       \/ /\ Commit(t, [store[t] EXCEPT !.requests = arrayUnion(@, user[u])])
          /\ last' = Ended("send", u, send[u].e, "sent", includes(store[t].requests, user[u]))
          /\ UNCHANGED fails
       \/ /\ Failure
          /\ last' = Ended("send", u, send[u].e, "error", FALSE)
          /\ UNCHANGED <<store, pendingSnap>>
  /\ UNCHANGED <<ranker, nops, opBudget, user, session, roster, requests, friendEmails,
                 deletingFriend, acc, rem, partial>>

----------------------------------------------------------------------------
(* acceptRequest *)

\* the accept button of a pending request: the first updateDoc is issued
acceptRequest(u, requesterEmail) ==
  /\ acc[u].pc = "idle"
  /\ Invoke(u)
  /\ includes(requests[u], requesterEmail)
  /\ Count(friendEmails[u], requesterEmail) <= MaxDup
  /\ acc' = [acc EXCEPT ![u] = [pc |-> "w1", e |-> requesterEmail, tid |-> NULL]]
  /\ last' = NoOp
  /\ UNCHANGED <<store, user, session, roster, requests, friendEmails, deletingFriend, send, rem,
                 pendingSnap, ranker, fails, partial>>

\* a first write of acceptRequest that only drops the request (the caller's
\* friends would be written after the requester's)
acceptOwnDocRequestsOnly(doc, requesterEmail) ==
  [doc EXCEPT !.requests = arrayRemove(@, requesterEmail)]

\* the own-record write of acceptRequest: friends arrayUnion, requests arrayRemove
acceptOwnDoc(doc, requesterEmail) ==
  [doc EXCEPT !.friends = arrayUnion(@, requesterEmail),
              !.requests = arrayRemove(@, requesterEmail)]

\* 1. updateDoc(own doc) resolved; getDocs for the requester is issued
AcceptW1(u) ==
  /\ acc[u].pc = "w1"
  /\ \/ /\ Commit(uid[u], acceptOwnDoc(store[uid[u]], acc[u].e))
        /\ acc' = [acc EXCEPT ![u].pc = "lookup"]
        /\ last' = NoOp
        /\ UNCHANGED fails
     \/ /\ Failure
        /\ acc' = [acc EXCEPT ![u] = Idle]
        /\ last' = Ended("accept", u, acc[u].e, "error", FALSE)
        /\ UNCHANGED <<store, pendingSnap>>
  /\ UNCHANGED <<ranker, nops, opBudget, user, session, roster, requests, friendEmails,
                 deletingFriend, send, rem, partial>>

\* the end of the try block of acceptRequest: setFriendEmails(prev => [...prev, requesterEmail])
AcceptEnd(u, res) ==
  /\ acc' = [acc EXCEPT ![u] = Idle]
  /\ friendEmails' = [friendEmails EXCEPT ![u] = Append(@, acc[u].e)]
  /\ friendsEffect(u, user[u], Append(friendEmails[u], acc[u].e))
  /\ last' = Ended("accept", u, acc[u].e, res, FALSE)

\* 2. getDocs resolved: if (!snap.empty) the second updateDoc is issued
AcceptLookup(u) ==
  /\ acc[u].pc = "lookup"
  /\ LET snap == queryEquals(acc[u].e) IN
       \/ /\ snap = {}
          /\ AcceptEnd(u, "nomatch")
          /\ UNCHANGED fails
       \/ /\ snap # {}
          /\ acc' = [acc EXCEPT ![u] = [@ EXCEPT !.pc = "w2", !.tid = CHOOSE v \in snap : TRUE]]
          /\ last' = NoOp
          /\ UNCHANGED <<fails, friendEmails, roster>>
       \/ /\ Failure
          /\ acc' = [acc EXCEPT ![u] = Idle]
          /\ last' = Ended("accept", u, acc[u].e, "error", FALSE)
          /\ UNCHANGED <<friendEmails, roster>>
  /\ UNCHANGED <<ranker, nops, opBudget, store, user, session, requests, deletingFriend, send, rem,
                 pendingSnap, partial>>

\* updateDoc(requester doc, {friends: arrayUnion(user.email)}) resolved
AcceptW2(u) ==
  /\ acc[u].pc = "w2"
  /\ LET t == acc[u].tid IN
       \/ /\ Commit(t, [store[t] EXCEPT !.friends = arrayUnion(@, user[u])])
          /\ AcceptEnd(u, "ok")
          /\ UNCHANGED <<fails, partial>>
       \/ /\ Failure
          /\ acc' = [acc EXCEPT ![u] = Idle]
          /\ partial' = partial \cup {<<"accept", u, acc[u].e>>}
          /\ last' = Ended("accept", u, acc[u].e, "error", TRUE)
          /\ UNCHANGED <<store, pendingSnap, friendEmails, roster>>
  /\ UNCHANGED <<ranker, nops, opBudget, user, session, requests, deletingFriend, send, rem>>

----------------------------------------------------------------------------
(* finalRemove *)

\* the X button of a roster entry: setDeletingFriend(friend)
setDeletingFriend(u, email) ==
  /\ user[u] # NULL
  /\ email \in rosterEmails(u)
  /\ deletingFriend[u] # email
  /\ deletingFriend' = [deletingFriend EXCEPT ![u] = email]
  /\ last' = NoOp
  /\ UNCHANGED <<ranker, nops, opBudget, store, user, session, roster, requests, friendEmails,
                 send, acc, rem, pendingSnap, fails, partial>>

\* "nevermind": setDeletingFriend(null)
cancelDeleting(u) ==
  /\ user[u] # NULL
  /\ deletingFriend[u] # NULL
  /\ deletingFriend' = [deletingFriend EXCEPT ![u] = NULL]
  /\ last' = NoOp
  /\ UNCHANGED <<ranker, nops, opBudget, store, user, session, roster, requests, friendEmails,
                 send, acc, rem, pendingSnap, fails, partial>>

\* "say goodbye": the first updateDoc is issued for friendEmailToRemove
finalRemove(u) ==
  /\ rem[u].pc = "idle"
  /\ Invoke(u)
  /\ deletingFriend[u] # NULL
  /\ rem' = [rem EXCEPT ![u] = [pc |-> "w1", e |-> deletingFriend[u], tid |-> NULL]]
  /\ last' = NoOp
  /\ UNCHANGED <<store, user, session, roster, requests, friendEmails, deletingFriend, send, acc,
                 pendingSnap, ranker, fails, partial>>

\* the catch block of finalRemove: the modal stays open
RemoveFailed(u, second) ==
  /\ Failure
  /\ rem' = [rem EXCEPT ![u] = Idle]
  /\ last' = Ended("remove", u, rem[u].e, "error", second)

\* 1. updateDoc(own doc, {friends: arrayRemove(friendEmailToRemove)}) resolved
RemoveW1(u) ==
  /\ rem[u].pc = "w1"
  /\ \/ /\ Commit(uid[u], [store[uid[u]] EXCEPT !.friends = arrayRemove(@, rem[u].e)])
        /\ rem' = [rem EXCEPT ![u].pc = "lookup"]
        /\ last' = NoOp
        /\ UNCHANGED fails
     \/ /\ RemoveFailed(u, FALSE)
        /\ UNCHANGED <<store, pendingSnap>>
  /\ UNCHANGED <<ranker, nops, opBudget, user, session, roster, requests, friendEmails,
                 deletingFriend, send, acc, partial>>

\* the end of the try block of finalRemove: setFriendEmails(filter), setDeletingFriend(null)
RemoveEnd(u, res) ==
  /\ rem' = [rem EXCEPT ![u] = Idle]
  /\ friendEmails' = [friendEmails EXCEPT ![u] = SelectSeq(@, LAMBDA x : x # rem[u].e)]
  /\ friendsEffect(u, user[u], SelectSeq(friendEmails[u], LAMBDA x : x # rem[u].e))
  /\ deletingFriend' = [deletingFriend EXCEPT ![u] = NULL]
  /\ last' = Ended("remove", u, rem[u].e, res, FALSE)

\* 2. getDocs resolved: if (!snap.empty) the second updateDoc is issued
RemoveLookup(u) ==
  /\ rem[u].pc = "lookup"
  /\ LET snap == queryEquals(rem[u].e) IN
       \/ /\ snap = {}
          /\ RemoveEnd(u, "nomatch")
          /\ UNCHANGED fails
       \/ /\ snap # {}
          /\ rem' = [rem EXCEPT ![u] = [@ EXCEPT !.pc = "w2", !.tid = CHOOSE v \in snap : TRUE]]
          /\ last' = NoOp
          /\ UNCHANGED <<fails, friendEmails, deletingFriend, roster>>
       \/ /\ RemoveFailed(u, FALSE)
          /\ UNCHANGED <<friendEmails, deletingFriend, roster>>
  /\ UNCHANGED <<ranker, nops, opBudget, store, user, session, requests, send, acc, pendingSnap, partial>>

\* updateDoc(peer doc, {friends: arrayRemove(user.email)}) resolved
RemoveW2(u) ==
  /\ rem[u].pc = "w2"
  /\ LET t == rem[u].tid IN
       \/ /\ Commit(t, [store[t] EXCEPT !.friends = arrayRemove(@, user[u])])
          /\ RemoveEnd(u, "ok")
          /\ UNCHANGED <<fails, partial>>
       \/ /\ RemoveFailed(u, TRUE)
          /\ partial' = partial \cup {<<"remove", u, rem[u].e>>}
          /\ UNCHANGED <<store, pendingSnap, friendEmails, deletingFriend, roster>>
  /\ UNCHANGED <<ranker, nops, opBudget, user, session, requests, send, acc>>

----------------------------------------------------------------------------
(* The friend-graph specification *)

Next ==
  \/ \E u \in Uids : SnapOwn(u)
  \/ \E u \in Uids, friendEmail \in friendEmailInputs : sendFriendRequest(u, friendEmail)
  \/ \E u \in Uids : SendLookup(u)
  \/ \E u \in Uids : SendWrite(u)
  \/ \E u \in Uids, requesterEmail \in {authEmail(v) : v \in Uids} : acceptRequest(u, requesterEmail)
  \/ \E u \in Uids : AcceptW1(u)
  \/ \E u \in Uids : AcceptLookup(u)
  \/ \E u \in Uids : AcceptW2(u)
  \/ \E u \in Uids, email \in {toLowerCase(authEmail(v)) : v \in Uids} : setDeletingFriend(u, email)
  \/ \E u \in Uids : cancelDeleting(u)
  \/ \E u \in Uids : finalRemove(u)
  \/ \E u \in Uids : RemoveW1(u)
  \/ \E u \in Uids : RemoveLookup(u)
  \/ \E u \in Uids : RemoveW2(u)

Init == InitWith(MaxOps)

Spec == Init /\ [][Next]_vars

----------------------------------------------------------------------------
(* 1. Session bridge and presence record manager *)

\* a staleness test that lets a check-in of exactly four hours pass
staleAfterThreshold(data, t) ==
  /\ data.isInLibrary
  /\ data.lastCheckIn # NoTime
  /\ differenceInHours(t, data.lastCheckIn) > StaleHours

\* the staleness test of the login callback on the fetched data
stale(data, t) ==
  /\ data.isInLibrary
  /\ data.lastCheckIn # NoTime
  /\ differenceInHours(t, data.lastCheckIn) >= StaleHours

\* a button is pressed that begins or ends a session or toggles presence
Press ==
  /\ nops < opBudget
  /\ nops' = nops + 1
  /\ UNCHANGED opBudget

\* onAuthStateChanged(currentUser): setUser(currentUser), getDoc is issued;
\* effect 2a attaches the own-record listener, effect 2b runs on the new user
\* (last.pre: the sign-in follows the sign-out of another account on the instance)
\* opened: the instances that are running
signInOn(u, v, opened) ==
  /\ user[u] = NULL
  /\ auth[u].pc = "idle"
  /\ u \in opened
  /\ v = u \/ u = SharedInstance
  /\ Press
  /\ user' = [user EXCEPT ![u] = authEmail(v)]
  /\ uid' = [uid EXCEPT ![u] = v]
  /\ auth' = [auth EXCEPT ![u] = [pc |-> "getDoc", uid |-> v, email |-> authEmail(v)]]
  /\ ownSub' = [ownSub EXCEPT ![u] = v]
  /\ pendingSnap' = [pendingSnap EXCEPT ![u] = TRUE]
  /\ friendsEffect(u, authEmail(v), friendEmails[u])
  /\ last' = Ended("signIn", u, v, "ok", last.op = "signOut" /\ last.by = u /\ last.e # v)
  /\ UNCHANGED <<store, isInLibrary, tog, now, requests, friendEmails, deletingFriend, send, acc, rem,
                 ranker, fails, partial>>

signIn(u, v) == signInOn(u, v, Instances)

\* every user has an instance of its own running, besides the shared one
signInAny(u, v) == signInOn(u, v, Uids)

\* signOut(auth): onAuthStateChanged(null): setUser(null); the cleanup of
\* effect 2a detaches the own-record listener, effect 2b detaches the
\* membership listener and wipes the roster
\* cleanup: the effects return their unsub
signOutStep(u, cleanup) ==
  /\ user[u] # NULL
  /\ InFlightOf(u) = 0
  /\ Press
  /\ user' = [user EXCEPT ![u] = NULL]
  /\ uid' = [uid EXCEPT ![u] = NULL]
  /\ IF cleanup
     THEN /\ ownSub' = [ownSub EXCEPT ![u] = NULL]
          /\ pendingSnap' = [pendingSnap EXCEPT ![u] = FALSE]
          /\ friendsEffect(u, NULL, friendEmails[u])
     ELSE /\ UNCHANGED <<ownSub, pendingSnap>>
          /\ friendsEffectKeepsListener(u, NULL, friendEmails[u])
  /\ last' = Ended("signOut", u, uid[u], "ok", FALSE)
  /\ UNCHANGED <<store, isInLibrary, auth, tog, now, requests, friendEmails, deletingFriend,
                 send, acc, rem, ranker, fails, partial>>

\* a sign-out after which the listeners of the session stay attached
signOutWithoutCleanup(u) == signOutStep(u, FALSE)

signOut(u) == signOutStep(u, TRUE)

\* getDoc(userRef) resolved: no record / a stale check-in / setIsInLibrary(currentStatus)
AuthGetDoc(u) ==
  /\ auth[u].pc = "getDoc"
  /\ LET userSnap == store[auth[u].uid] IN
       \/ /\ userSnap = NoDoc
          /\ auth' = [auth EXCEPT ![u].pc = "setDoc"]
          /\ last' = NoOp
          /\ UNCHANGED <<isInLibrary, fails>>
       \/ /\ userSnap # NoDoc
          /\ IF stale(userSnap, now)
             THEN /\ auth' = [auth EXCEPT ![u].pc = "updateDoc"]
                  /\ last' = NoOp
                  /\ UNCHANGED isInLibrary
             ELSE /\ auth' = [auth EXCEPT ![u] = AuthIdle]
                  /\ isInLibrary' = [isInLibrary EXCEPT ![u] = userSnap.isInLibrary]
                  /\ last' = Ended("load", u, auth[u].uid, "loaded", userSnap.isInLibrary)
          /\ UNCHANGED fails
       \/ /\ Failure
          /\ auth' = [auth EXCEPT ![u] = AuthIdle]
          /\ last' = Ended("load", u, auth[u].uid, "error", FALSE)
          /\ UNCHANGED isInLibrary
  /\ UNCHANGED <<store, user, uid, ownSub, tog, now, roster, requests, friendEmails, deletingFriend,
                 send, acc, rem, pendingSnap, ranker, nops, opBudget, partial>>

\* setDoc(userRef, {...}) resolved: the record is replaced by the new-user defaults
AuthSetDoc(u) ==
  /\ auth[u].pc = "setDoc"
  /\ auth' = [auth EXCEPT ![u] = AuthIdle]
  /\ \/ /\ Commit(auth[u].uid, newUserDoc(auth[u].email))
        /\ last' = Ended("load", u, auth[u].uid, "created", FALSE)
        /\ UNCHANGED fails
     \/ /\ Failure
        /\ last' = Ended("load", u, auth[u].uid, "error", FALSE)
        /\ UNCHANGED <<store, pendingSnap>>
  /\ UNCHANGED <<user, uid, isInLibrary, ownSub, tog, now, roster, requests, friendEmails,
                 deletingFriend, send, acc, rem, ranker, nops, opBudget, partial>>

\* updateDoc(userRef, {isInLibrary: false, lastCheckIn: null}) resolved:
\* currentStatus = false; setIsInLibrary(currentStatus)
AuthUpdateDoc(u) ==
  /\ auth[u].pc = "updateDoc"
  /\ auth' = [auth EXCEPT ![u] = AuthIdle]
  /\ LET v == auth[u].uid IN
       \/ /\ Commit(v, [store[v] EXCEPT !.isInLibrary = FALSE, !.lastCheckIn = NoTime])
          /\ isInLibrary' = [isInLibrary EXCEPT ![u] = FALSE]
          /\ last' = Ended("load", u, v, "corrected", TRUE)
          /\ UNCHANGED fails
       \/ /\ Failure
          /\ last' = Ended("load", u, v, "error", TRUE)
          /\ UNCHANGED <<store, pendingSnap, isInLibrary>>
  /\ UNCHANGED <<user, uid, ownSub, tog, now, roster, requests, friendEmails, deletingFriend,
                 send, acc, rem, ranker, nops, opBudget, partial>>

\* a toggle that leaves the note of the check-in in place when presence ends
toggleKeepsNote(doc, newState, locationNote, timestamp) ==
  [doc EXCEPT !.isInLibrary = newState,
              !.lastCheckIn = IF newState THEN timestamp ELSE NoTime,
              !.statusNote = locationNote]

\* a check-out that leaves the time of the check-in in the record
toggleKeepsTime(doc, newState, locationNote, timestamp) ==
  [doc EXCEPT !.isInLibrary = newState,
              !.lastCheckIn = IF newState THEN timestamp ELSE doc.lastCheckIn,
              !.statusNote = IF newState THEN locationNote ELSE ""]

\* the update of toggleStatus: isInLibrary, lastCheckIn (serverTimestamp() or
\* null) and statusNote (locationNote or "")
toggleUpdate(doc, newState, locationNote, timestamp) ==
  [doc EXCEPT !.isInLibrary = newState,
              !.lastCheckIn = IF newState THEN timestamp ELSE NoTime,
              !.statusNote = IF newState THEN locationNote ELSE ""]

\* the big button: newState = !isInLibrary; setIsInLibrary(newState); updateDoc is issued
toggleStatus(u, locationNote) ==
  /\ user[u] # NULL
  /\ tog[u].pc = "idle"
  /\ Press
  /\ isInLibrary' = [isInLibrary EXCEPT ![u] = ~isInLibrary[u]]
  /\ tog' = [tog EXCEPT ![u] = [pc |-> "write", uid |-> uid[u], newState |-> ~isInLibrary[u],
                                 note |-> locationNote]]
  /\ last' = NoOp
  /\ UNCHANGED <<store, user, uid, ownSub, auth, now, roster, requests, friendEmails, deletingFriend,
                 send, acc, rem, pendingSnap, ranker, fails, partial>>

\* updateDoc(doc(db,'users',user.uid), {...}) settled; it rejects when the
\* record does not exist (yet). toggleStatus has no try block: a rejection
\* leaves toggleStatus through its returned promise ("rejected").
\* caught: the await sits in a try block whose catch logs the error and sets
\* the local state back, as the other handlers log theirs ("error").
ToggleWriteStep(u, caught) ==
  /\ tog[u].pc = "write"
  /\ tog' = [tog EXCEPT ![u] = TogIdle]
  /\ LET v == tog[u].uid
         throws == /\ last' = Ended("toggle", u, v, IF caught THEN "error" ELSE "rejected", tog[u].newState)
                   /\ isInLibrary' = [isInLibrary EXCEPT ![u] = IF caught THEN ~tog[u].newState ELSE @]
                   /\ UNCHANGED <<store, pendingSnap>>
     IN
       \/ /\ store[v] # NoDoc
          /\ Commit(v, toggleUpdate(store[v], tog[u].newState, tog[u].note, now))
          /\ last' = Ended("toggle", u, v, "written", tog[u].newState)
          /\ UNCHANGED <<fails, isInLibrary>>
       \/ /\ store[v] = NoDoc
          /\ throws
          /\ UNCHANGED fails
       \/ /\ Failure
          /\ throws
  /\ UNCHANGED <<user, uid, ownSub, auth, now, roster, requests, friendEmails,
                 deletingFriend, send, acc, rem, ranker, nops, opBudget, partial>>

\* a toggleStatus that catches the rejection of its write
ToggleWriteCaught(u) == ToggleWriteStep(u, TRUE)

ToggleWrite(u) == ToggleWriteStep(u, FALSE)

\* no store call is awaited and no emission is due
Quiescent ==
  /\ InFlight = 0
  /\ \A u \in Uids :
       /\ auth[u].pc = "idle"
       /\ tog[u].pc = "idle"
       /\ ~pendingSnap[u]
       /\ \A sub \in memberSub[u] : ~sub.fresh /\ friendData(sub.emails) = friends[u]

\* time passes: hours go by between the store calls and emissions, which
\* take seconds; the hours are counted from the first check-in
Tick ==
  /\ now + ClockStep <= MaxNow
  /\ \E v \in Uids : store[v].isInLibrary
  /\ Quiescent
  /\ now' = now + ClockStep
  /\ last' = NoOp
  /\ UNCHANGED <<store, user, uid, isInLibrary, ownSub, auth, tog, roster, requests, friendEmails,
                 deletingFriend, send, acc, rem, pendingSnap, ranker, nops, opBudget, fails, partial>>

\* the store before any instance is opened: u1 and u2 signed in earlier and
\* are friends, u3 has never signed in
friendsOf(u) == CASE u = "u1" -> <<"b">> [] u = "u2" -> <<"a">> [] OTHER -> <<>>

InitSignedOut(budget, failed) ==
  /\ opBudget = budget
  /\ store = [u \in Uids |-> IF u = "u3" THEN NoDoc
                             ELSE [newUserDoc(authEmail(u)) EXCEPT !.friends = friendsOf(u)]]
  /\ Established({})
  /\ requests = [u \in Uids |-> <<>>]
  /\ friendEmails = [u \in Uids |-> <<>>]
  /\ deletingFriend = [u \in Uids |-> NULL]
  /\ send = [u \in Uids |-> Idle]
  /\ acc = [u \in Uids |-> Idle]
  /\ rem = [u \in Uids |-> Idle]
  /\ pendingSnap = [u \in Uids |-> FALSE]
  /\ suggestedFriends = [u \in Uids |-> <<>>]
  /\ calcDeps = [u \in Uids |-> <<friendEmails[u], user[u], requests[u]>>]
  /\ calc = [u \in Uids |-> <<>>]
  /\ nops = 0
  /\ fails = failed
  /\ partial = {}
  /\ last = NoOp

\* no store call fails (beyond the updateDoc of a record that does not exist)
InitPresence == InitSignedOut(MaxOpsPresence, MaxFails - MaxFailsPresence)

NextPresence ==
  \/ \E u \in Uids : SnapOwn(u)
  \/ \E u \in Uids, email \in {toLowerCase(authEmail(v)) : v \in Uids} : setDeletingFriend(u, email)
  \/ \E u \in Uids : finalRemove(u)
  \/ \E u \in Uids : RemoveW1(u)
  \/ \E u \in Uids : RemoveLookup(u)
  \/ \E u \in Uids : RemoveW2(u)
  \/ \E u \in Uids, v \in Uids : signIn(u, v)
  \/ \E u \in Uids : signOut(u)
  \/ \E u \in Uids : AuthGetDoc(u)
  \/ \E u \in Uids : AuthSetDoc(u)
  \/ \E u \in Uids : AuthUpdateDoc(u)
  \/ \E u \in Uids, locationNote \in Notes : toggleStatus(u, locationNote)
  \/ \E u \in Uids : ToggleWrite(u)
  \/ \E u \in Uids : RosterSnap(u)
  \/ Tick

\* sessions, presence and the roster together with the friend graph
SpecPresence == InitPresence /\ [][NextPresence]_vars

\* sessions and the presence toggle, with store calls that can be rejected
NextToggle ==
  \/ \E u \in Uids : SnapOwn(u)
  \/ \E u \in Uids, v \in Uids : signIn(u, v)
  \/ \E u \in Uids : signOut(u)
  \/ \E u \in Uids : AuthGetDoc(u)
  \/ \E u \in Uids : AuthSetDoc(u)
  \/ \E u \in Uids : AuthUpdateDoc(u)
  \/ \E u \in Uids, locationNote \in Notes : toggleStatus(u, locationNote)
  \/ \E u \in Uids : ToggleWrite(u)
  \/ \E u \in Uids : RosterSnap(u)
  \/ Tick

SpecToggle == InitSignedOut(MaxOpsPresence, 0) /\ [][NextToggle]_vars

\* session establishment on every instance, with requests being sent meanwhile
NextSetup ==
  \/ \E u \in Uids : SnapOwn(u)
  \/ \E u \in Uids, v \in Uids : signInAny(u, v)
  \/ \E u \in Uids : signOut(u)
  \/ \E u \in Uids : AuthGetDoc(u)
  \/ \E u \in Uids : AuthSetDoc(u)
  \/ \E u \in Uids, friendEmail \in friendEmailInputs : sendFriendRequest(u, friendEmail)
  \/ \E u \in Uids : SendLookup(u)
  \/ \E u \in Uids : SendWrite(u)
  \/ \E u \in Uids : RosterSnap(u)

SpecSetup == InitSignedOut(MaxOpsPresence, MaxFails) /\ [][NextSetup]_vars

\* every due emission of a membership listener is delivered
SpecPresenceFair ==
  SpecPresence /\ \A u \in Instances : WF_vars(RosterSnap(u))

----------------------------------------------------------------------------
(* Suggestion ranker: the calculateSuggested effect *)

\* a counting loop that starts one entry late and misses the first friend
mutualCountFromSecond(theirFriends, fe) ==
  Cardinality({i \in DOMAIN theirFriends : i > 1 /\ includes(fe, theirFriends[i])})

\* 4. the overlap count: entries of the candidate's friends found in friendEmails
mutualCount(theirFriends, fe) ==
  Cardinality({i \in DOMAIN theirFriends : includes(fe, theirFriends[i])})

\* skip self, current friends, or pending requests
skipped(otherUserEmail, userEmail, fe, rq) ==
  \/ otherUserEmail = userEmail
  \/ includes(fe, otherUserEmail)
  \/ includes(rq, otherUserEmail)

\* a calculateSuggested whose list is saved as pushed, without the sort
unsorted(list, k) == list

\* Array.prototype.sort((a, b) => b.mutuals - a.mutuals): stable, descending
RECURSIVE sortByMutuals(_, _)
sortByMutuals(list, k) ==
  IF k = 0 THEN <<>>
  ELSE SelectSeq(list, LAMBDA x : x.mutuals = k) \o sortByMutuals(list, k - 1)

\* the body of calculateSuggested after getDocs, over the documents `docs`
calculatedSuggestions(docs, userEmail, fe, rq) ==
  LET entry(v) == [email |-> docs[v].email, mutuals |-> mutualCount(docs[v].friends, fe)]
      pushed(v) == ~skipped(docs[v].email, userEmail, fe, rq) /\ entry(v).mutuals > 0
      uids == SelectSeq(UidOrder, pushed)
      list == [i \in DOMAIN uids |-> entry(uids[i])]
  IN  sortByMutuals(list, Len(UidOrder))

\* the effect runs when friendEmails, user or requests changed: no friends
\* clears the list at once (whatever earlier runs are still suspended),
\* otherwise the run suspends at the stabilizer.
\* waits: a run with no friends goes through the stabilizer and getDocs as well.
CalcEffectStep(u, waits) ==
  /\ calcDeps[u] # <<friendEmails[u], user[u], requests[u]>>
  /\ calcDeps' = [calcDeps EXCEPT ![u] = <<friendEmails[u], user[u], requests[u]>>]
  /\ IF ~waits /\ (user[u] = NULL \/ friendEmails[u] = <<>>)
     THEN /\ suggestedFriends' = [suggestedFriends EXCEPT ![u] = <<>>]
          /\ UNCHANGED calc
     ELSE /\ Len(calc[u]) < MaxCalc
          /\ calc' = [calc EXCEPT ![u] = Append(@, [user |-> user[u], friendEmails |-> friendEmails[u],
                                                     requests |-> requests[u]])]
          /\ UNCHANGED suggestedFriends
  /\ last' = NoOp
  /\ UNCHANGED <<store, user, session, roster, requests, friendEmails, deletingFriend, send, acc, rem,
                 pendingSnap, nops, opBudget, fails, partial>>

\* a calculateSuggested without the clearance check of its first lines
CalcEffectAlwaysWaits(u) == CalcEffectStep(u, TRUE)

CalcEffect(u) == CalcEffectStep(u, FALSE)

\* the stabilizer elapsed and getDocs resolved: the list is computed and saved
CalcRead(u) ==
  /\ calc[u] # <<>>
  /\ calc' = [calc EXCEPT ![u] = Tail(@)]
  /\ LET run == Head(calc[u]) IN
       \/ /\ suggestedFriends' = [suggestedFriends EXCEPT ![u] =
                 calculatedSuggestions(store, run.user, run.friendEmails, run.requests)]
          /\ UNCHANGED fails
       \/ /\ Failure
          /\ UNCHANGED suggestedFriends
  /\ last' = NoOp
  /\ UNCHANGED <<store, user, session, roster, requests, friendEmails, deletingFriend, send, acc, rem,
                 pendingSnap, calcDeps, nops, opBudget, partial>>

NextSuggest ==
  \/ Next
  \/ \E u \in Uids : CalcEffect(u)
  \/ \E u \in Uids : CalcRead(u)

\* the friend graph together with the suggestion ranker
SpecSuggest == InitWith(MaxOpsSuggest) /\ [][NextSuggest]_vars

\* a store in which u1 is a friend of u2 and of u3 (u1 asked u3 by its
\* lower-case e-mail and u3 accepted, so u1 lists u3's session e-mail)
friendsAroundU1(u) ==
  CASE u = "u1" -> <<"b", "C">> [] u = "u2" -> <<"a">> [] OTHER -> <<"a">>

\* two sessions are established over that store and have received the first
\* emission of their own record; the suggestion effect has not run on it yet
InitRanker ==
  /\ opBudget = MaxOpsRanker
  /\ store = [u \in Uids |-> [newUserDoc(authEmail(u)) EXCEPT !.friends = friendsAroundU1(u)]]
  /\ \E S \in Sessions :
       /\ user = [u \in Uids |-> IF u \in S THEN authEmail(u) ELSE NULL]
       /\ uid = [u \in Uids |-> IF u \in S THEN u ELSE NULL]
       /\ ownSub = [u \in Uids |-> IF u \in S THEN u ELSE NULL]
       /\ friendEmails = [u \in Uids |-> IF u \in S THEN store[u].friends ELSE <<>>]
       /\ memberSub = [u \in Uids |-> IF u \in S
                                       THEN subscribeMembers({}, cappedEmails(store[u].friends))
                                       ELSE {}]
  /\ isInLibrary = [u \in Uids |-> FALSE]
  /\ friends = [u \in Uids |-> <<>>]
  /\ auth = [u \in Uids |-> AuthIdle]
  /\ tog = [u \in Uids |-> TogIdle]
  /\ now = 0
  /\ requests = [u \in Uids |-> <<>>]
  /\ deletingFriend = [u \in Uids |-> NULL]
  /\ send = [u \in Uids |-> Idle]
  /\ acc = [u \in Uids |-> Idle]
  /\ rem = [u \in Uids |-> Idle]
  /\ pendingSnap = [u \in Uids |-> FALSE]
  /\ suggestedFriends = [u \in Uids |-> <<>>]
  /\ calcDeps = [u \in Uids |-> <<<<>>, NULL, <<>>>>]
  /\ calc = [u \in Uids |-> <<>>]
  /\ nops = 0
  /\ fails = 0
  /\ partial = {}
  /\ last = NoOp

\* the suggestion ranker over a store that holds friendships
SpecRanker == InitRanker /\ [][NextSuggest]_vars

\* the suggestion list with its add buttons, and the add button of the input
NextAddSuggested ==
  \/ \E u \in Uids : SnapOwn(u)
  \/ \E u \in Uids : RosterSnap(u)
  \/ \E u \in Uids : CalcEffect(u)
  \/ \E u \in Uids : CalcRead(u)
  \/ \E u \in Uids, friendEmail \in friendEmailInputs : sendFriendRequest(u, friendEmail)
  \/ \E u \in Uids, i \in 1..Len(UidOrder), friendEmail \in friendEmailInputs :
        addSuggested(u, i, friendEmail)
  \/ \E u \in Uids : SuggestTimer(u)
  \/ \E u \in Uids : SendLookup(u)
  \/ \E u \in Uids : SendWrite(u)

SpecAddSuggested == InitRanker /\ [][NextAddSuggested]_vars

\* sessions that come and go on the instances, the friend list and the ranker
NextShared ==
  \/ \E u \in Uids : SnapOwn(u)
  \/ \E u \in Uids, email \in {toLowerCase(authEmail(v)) : v \in Uids} : setDeletingFriend(u, email)
  \/ \E u \in Uids : finalRemove(u)
  \/ \E u \in Uids : RemoveW1(u)
  \/ \E u \in Uids : RemoveLookup(u)
  \/ \E u \in Uids : RemoveW2(u)
  \/ \E u \in Uids, v \in Uids : signIn(u, v)
  \/ \E u \in Uids : signOut(u)
  \/ \E u \in Uids : AuthGetDoc(u)
  \/ \E u \in Uids : AuthSetDoc(u)
  \/ \E u \in Uids : RosterSnap(u)
  \/ \E u \in Uids : CalcEffect(u)
  \/ \E u \in Uids : CalcRead(u)

\* the suggestion ranker on instances that are signed in to and out of
SpecShared == InitPresence /\ [][NextShared]_vars

\* what the code's scheduling guarantees: every awaited store call settles and
\* every due listener emission is delivered; no button is ever pressed by itself
SystemStep ==
  \/ \E u \in Uids : SnapOwn(u)
  \/ \E u \in Uids : SendLookup(u) \/ SendWrite(u)
  \/ \E u \in Uids : AcceptW1(u) \/ AcceptLookup(u) \/ AcceptW2(u)
  \/ \E u \in Uids : RemoveW1(u) \/ RemoveLookup(u) \/ RemoveW2(u)

SpecFair == Spec /\ WF_vars(SystemStep)

----------------------------------------------------------------------------
(* Vocabulary of the claims *)

\* the e-mails that name user v: the one of its session and the one in its record
EmailsOf(v) == {authEmail(v), store[v].email}

\* the users an e-mail names
ownersOf(e) == {v \in Uids : e \in EmailsOf(v)}

\* y is in x.friends / y is in x.requests
lists(x, y) == \E e \in EmailsOf(y) : includes(store[x].friends, e)
asks(x, y) == \E e \in EmailsOf(y) : includes(store[x].requests, e)

Symmetric(x, y) == lists(x, y) <=> lists(y, x)

TwoWriteInFlight == \E u \in Uids : acc[u].pc # "idle" \/ rem[u].pc # "idle"

NoDuplicates(arr) == \A i, j \in DOMAIN arr : arr[i] = arr[j] => i = j

Rejected == {"InvalidTarget", "NotFound", "AlreadyFriends"}
Completed == {"ok", "nomatch"}

----------------------------------------------------------------------------
(* Claims *)

\* C1: when acceptRequest(A, B) has run to completion with no store call
\* failing, B is in A.friends and A is in B.friends.
C1_AcceptSymmetric ==
  (last.op = "accept" /\ last.res \in Completed) =>
    \A B \in ownersOf(last.e) \ {last.by} : lists(last.by, B) /\ lists(B, last.by)

\* C2: when removeFriend(A, B) has run to completion with no store call
\* failing, B is not in A.friends and A is not in B.friends.
C2_RemoveSymmetric ==
  (last.op = "remove" /\ last.res \in Completed) =>
    \A B \in ownersOf(last.e) \ {last.by} : ~lists(last.by, B) /\ ~lists(B, last.by)

\* users whose session e-mail is the lower-case one of their record
PlainUids == {v \in Uids : authEmail(v) = store[v].email}

\* C3: with no store call failing, in every state in which no two-write
\* operation is in flight the friends relation is symmetric (stated for the
\* users whose lookups always match, so that only interleaving can break it).
C3_SymmetryUnderInterleaving ==
  (fails = 0 /\ ~TwoWriteInFlight) =>
    \A A \in PlainUids, B \in PlainUids : A # B => Symmetric(A, B)

\* C4: in every store state, for every user U, U.requests and U.friends are disjoint.
C4_RequestsDisjointFromFriends ==
  \A u \in Uids : \A i \in DOMAIN store[u].requests :
    ~includes(store[u].friends, store[u].requests[i])

\* C5: no user's e-mail appears in its own friends, its own requests or the
\* suggestion list computed for it.
C5_NoSelfEdges ==
  \A u \in Uids : \A e \in EmailsOf(u) :
    /\ ~includes(store[u].friends, e)
    /\ ~includes(store[u].requests, e)
    /\ \A i \in DOMAIN suggestedFriends[u] : suggestedFriends[u][i].email # e

\* C6: a sendRequest that lands (also one that lands on a record already
\* holding the sender's e-mail) leaves the target's requests holding the
\* sender's e-mail exactly once, and ends as a success.
C6_SendIdempotent ==
  /\ (last.op = "send" /\ last.res = "sent") =>
       \A t \in queryEquals(last.e) : Count(store[t].requests, user[last.by]) = 1
  /\ \A u \in Uids : NoDuplicates(store[u].requests)

\* C6 witness: the second of two sends in succession has landed
C6_SecondSendLanded ==
  /\ last.op = "send" /\ last.res = "sent" /\ last.pre
  /\ \E t \in queryEquals(last.e) : Count(store[t].requests, user[last.by]) = 1

PairNone(A, B) == ~lists(A, B) /\ ~lists(B, A) /\ ~asks(A, B) /\ ~asks(B, A)
PairRequested(A, B) == asks(B, A) /\ ~asks(A, B) /\ ~lists(A, B) /\ ~lists(B, A)
PairFriends(A, B) == lists(A, B) /\ lists(B, A) /\ ~asks(A, B) /\ ~asks(B, A)

\* C7: with no two-write operation in flight every pair of distinct users is
\* in one of None, Requested(A->B), Requested(B->A), Friends; in particular
\* the two are never in each other's requests at once.
C7_PairStateMachine ==
  ~TwoWriteInFlight =>
    \A A \in Uids, B \in Uids : A # B =>
      PairNone(A, B) \/ PairRequested(A, B) \/ PairRequested(B, A) \/ PairFriends(A, B)

\* C8: an asymmetry left by a failed second write does not persist: the pair
\* eventually becomes symmetric again.
C8_SymmetryRestored ==
  \A A \in Uids, B \in Uids :
    (partial # {} /\ ~Symmetric(A, B)) ~> Symmetric(A, B)

\* C9: an acceptRequest (removeFriend) that completes with no failure after
\* the same invocation once failed at its second write leaves the pair
\* symmetric, without duplicates and with B not in A.requests.
C9_RetryRepairs ==
  (last.op \in {"accept", "remove"} /\ last.res \in Completed
     /\ <<last.op, last.by, last.e>> \in partial) =>
    \A B \in ownersOf(last.e) \ {last.by} :
      /\ lists(last.by, B) <=> (last.op = "accept")
      /\ lists(B, last.by) <=> (last.op = "accept")
      /\ NoDuplicates(store[last.by].friends) /\ NoDuplicates(store[B].friends)
      /\ ~includes(store[last.by].requests, last.e)

\* C10: a sendRequest rejected as InvalidTarget, NotFound or AlreadyFriends
\* modifies no document: none of its steps changes the store, and it never
\* reaches its updateDoc.
C10_RejectedSendChangesNothing ==
  [][\A u \in Uids :
       /\ (send[u].pc # "write" /\ (send'[u] # send[u] \/ (last'.op = "send" /\ last'.by = u)))
            => store' = store
       /\ (last'.op = "send" /\ last'.by = u /\ last'.res \in Rejected)
            => send[u].pc # "write"]_vars

\* C10 witness: a request to a user who already lists the sender was rejected
C10_AlreadyFriendsRejected ==
  /\ last.op = "send" /\ last.res = "AlreadyFriends"
  /\ \E t \in queryEquals(last.e) : includes(store[t].friends, user[last.by])

----------------------------------------------------------------------------
(* Claims on presence, sessions and the roster *)

\* the record is present with a check-in time
CheckedIn(data) == data # NoDoc /\ data.isInLibrary /\ data.lastCheckIn # NoTime

\* the login callback of instance u takes the step that resumes it after `pc`
Resumes(u, pc) == auth[u].pc = pc /\ auth'[u].pc # pc /\ last'.res # "error"

\* C11: when a session is established for a user whose record is present
\* with a check-in 4 hours old or older, the record is written to
\* isInLibrary = false, lastCheckIn = null, the local presence state is set
\* only with the step in which that write completes, and it is then false;
\* with a younger check-in nothing is written and the local state is true.
C11_StaleCorrectedOnLoad ==
  [][\A u \in Uids :
       LET v == auth[u].uid IN
       /\ (Resumes(u, "getDoc") /\ CheckedIn(store[v])
             /\ differenceInHours(now, store[v].lastCheckIn) >= StaleHours)
            => /\ auth'[u].pc = "updateDoc"
               /\ isInLibrary'[u] = isInLibrary[u]
       /\ Resumes(u, "updateDoc")
            => /\ ~store'[v].isInLibrary /\ store'[v].lastCheckIn = NoTime
               /\ ~isInLibrary'[u]
               /\ auth'[u].pc = "idle"
       /\ (Resumes(u, "getDoc") /\ CheckedIn(store[v])
             /\ differenceInHours(now, store[v].lastCheckIn) < StaleHours)
            => /\ store' = store
               /\ isInLibrary'[u]
               /\ auth'[u].pc = "idle"]_vars

\* C11 witness: a session load has corrected a check-in that was 4 hours old
C11_LoadCorrected ==
  /\ last.op = "load" /\ last.res = "corrected"
  /\ ~store[last.e].isInLibrary /\ store[last.e].lastCheckIn = NoTime
  /\ ~isInLibrary[last.by]
  /\ now >= StaleHours

\* the record is present with a check-in that is 4 hours old or older
Expired(data) ==
  CheckedIn(data) /\ differenceInHours(now, data.lastCheckIn) >= StaleHours

\* the own-record listener of instance u delivers an emission in this step
OwnEmission(u) ==
  ownSub[u] # NULL /\ ownSub'[u] = ownSub[u] /\ pendingSnap[u] /\ ~pendingSnap'[u]

\* C12: whenever the owner's running session observes its own record (a
\* session load completes, the own-record listener delivers an emission
\* after the load, or the write of a toggle completes), the record is not
\* left present with a check-in that is 4 hours old or older.
C12_StaleCorrectedOnObservation ==
  [][/\ \A u \in Uids :
          (OwnEmission(u) /\ auth[u].pc = "idle") => ~Expired(store'[ownSub[u]])
     /\ (last'.op = "load" /\ last'.res \in {"loaded", "corrected"}) => ~Expired(store'[last'.e])
     /\ (last'.op = "toggle" /\ last'.res = "written") => ~Expired(store'[last'.e])]_vars

\* C13: a toggle issues one update, to the caller's own record, whose
\* isInLibrary is the negation of the local presence state at the call; a
\* check-in sets lastCheckIn to the store's time and statusNote to the note,
\* a check-out sets lastCheckIn to null and statusNote to empty; no other
\* record and no other field of the record is written.
C13_ToggleWritesOwnPresence ==
  [][\A u \in Uids :
       LET v == tog[u].uid IN
       /\ (tog[u].pc = "idle" /\ tog'[u].pc = "write")
            => /\ store' = store
               /\ tog'[u].uid = uid[u]
               /\ tog'[u].newState = ~isInLibrary[u]
       /\ (tog[u].pc = "write" /\ tog'[u].pc = "idle" /\ last'.res = "written")
            => /\ \A w \in Uids \ {v} : store'[w] = store[w]
               /\ store'[v].email = store[v].email
               /\ store'[v].friends = store[v].friends
               /\ store'[v].requests = store[v].requests
               /\ store'[v].isInLibrary = tog[u].newState
               /\ store'[v].lastCheckIn = (IF tog[u].newState THEN now ELSE NoTime)
               /\ store'[v].statusNote = (IF tog[u].newState THEN tog[u].note ELSE "")
       /\ (tog[u].pc = "write" /\ tog'[u].pc = "idle" /\ last'.res # "written")
            => store' = store]_vars

\* C13 witness: a toggle to false has been written over a check-in with a note
C13_CheckedOut ==
  /\ last.op = "toggle" /\ last.res = "written" /\ ~last.pre
  /\ ~store[last.e].isInLibrary
  /\ store[last.e].lastCheckIn = NoTime
  /\ store[last.e].statusNote = ""

\* C14: in every store state a record with isInLibrary = false has an empty
\* (or no) statusNote.
C14_NoteClearedWhenAway ==
  \A v \in Uids :
    (store[v] # NoDoc /\ ~store[v].isInLibrary) => store[v].statusNote \in {"", NULL}

\* C15: when the establishment of a session has completed (record fetched,
\* created if absent, corrected if stale), the local presence state of the
\* instance equals the isInLibrary of the user's record.
C15_LocalPresenceEqualsStore ==
  (last.op = "load" /\ last.res \in {"loaded", "created", "corrected"}) =>
    isInLibrary[last.by] = store[last.e].isInLibrary

\* C16: an instance has at most one active membership listener in every
\* state; when the friend-email set is replaced the previous listener is
\* detached before the new one is attached, so a new listener is alone.
C16_OneMembershipSubscription ==
  \A u \in Uids : Cardinality(memberSub[u]) <= 1

\* C16 witness: a listener has been attached in place of one over another
\* friend-email set, which had already delivered the roster
C16_Resubscribed ==
  \E u \in Uids : \E sub \in memberSub[u] :
    /\ sub.fresh
    /\ \E i \in DOMAIN friends[u] : ~includes(sub.emails, friends[u][i].email)
    /\ memberSub[u] = {sub}

\* C17: once an emission of the own record has carried an empty friends set
\* the roster is empty and no membership listener is attached, and it stays
\* so for as long as the friend-email set is empty: no emission of an
\* earlier listener fills the roster again.
C17_RosterClearedOnEmptyFriends ==
  \A u \in Uids :
    Len(friendEmails[u]) = 0 => (friends[u] = <<>> /\ memberSub[u] = {})

\* C17 witness: the own-record listener of a user who had a friend has
\* delivered the emission with the empty friends set
C17_LastFriendGone ==
  \E u \in Uids :
    /\ ownSub[u] \in {"u1", "u2"} /\ ~pendingSnap[u]
    /\ Len(store[ownSub[u]].friends) = 0
    /\ Len(friendEmails[u]) = 0
    /\ friends[u] = <<>> /\ memberSub[u] = {}

MemberOf(c, f) ==
  store[f] # NoDoc /\ \E sub \in memberSub[c] : includes(sub.emails, store[f].email)

\* the roster of instance c holds the record of f with its values in the store
Shown(c, f) == \E i \in DOMAIN friends[c] : friends[c][i] = store[f]

\* C19: when the record of a friend F within the caller's membership query
\* differs from what the caller's roster shows (F changed its presence), then,
\* emissions being delivered, the roster eventually holds F's record with the
\* values of the store (unless F leaves the caller's friend-email set).
C19_PresencePropagates ==
  \A c \in Instances, f \in Uids :
    (MemberOf(c, f) /\ ~Shown(c, f)) ~> (Shown(c, f) \/ ~MemberOf(c, f))

\* C19 witness: the roster of a caller shows the check-in of a friend
C19_FriendShownPresent ==
  \E c \in Instances, f \in Uids :
    /\ uid[c] # NULL /\ uid[c] # f
    /\ MemberOf(c, f) /\ Shown(c, f)
    /\ store[f].isInLibrary /\ store[f].lastCheckIn # NoTime

\* C20: in every state the suggestion list shown to a signed-in caller holds
\* no e-mail that is in the caller's current friend-email set or in the
\* caller's current requests set.
C20_SuggestionsFiltered ==
  \A u \in Uids : user[u] # NULL =>
    \A i \in DOMAIN suggestedFriends[u] :
      /\ ~includes(friendEmails[u], suggestedFriends[u][i].email)
      /\ ~includes(requests[u], suggestedFriends[u][i].email)

\* the e-mails held by an array
Elems(arr) == {arr[i] : i \in DOMAIN arr}

\* a run of calculateSuggested of instance u reads the user records in this
\* step and saves its list (the primed suggestedFriends[u] is the emitted list)
Emits(u) == calc[u] # <<>> /\ calc'[u] = Tail(calc[u]) /\ fails' = fails

\* C21: every entry of an emitted suggestion list carries as mutual count the
\* size of the intersection of the candidate's friends, as read from the store
\* in that step, with the caller's friend-email set as it is when the store is
\* read (not the set the run captured when it was triggered).
C21_MutualCountUsesLiveSet ==
  [][\A u \in Uids : Emits(u) =>
       \A i \in DOMAIN suggestedFriends'[u] :
         \E v \in Uids :
           /\ store[v].email = suggestedFriends'[u][i].email
           /\ suggestedFriends'[u][i].mutuals =
                Cardinality(Elems(store[v].friends) \cap Elems(friendEmails[u]))]_vars

\* the position at which the user enumeration returns the record with e-mail e
enumIndex(e) == CHOOSE k \in DOMAIN UidOrder : store[UidOrder[k]].email = e

\* C22: every emitted suggestion list holds only candidates with a mutual
\* count above zero, is in non-increasing order of mutual count, and keeps
\* candidates of equal count in the order the user enumeration returned them.
C22_RankingOrder ==
  [][\A u \in Uids : Emits(u) =>
       LET list == suggestedFriends'[u] IN
         /\ \A i \in DOMAIN list : list[i].mutuals > 0
         /\ \A i, j \in DOMAIN list : i < j =>
              /\ list[i].mutuals >= list[j].mutuals
              /\ list[i].mutuals = list[j].mutuals =>
                   enumIndex(list[i].email) < enumIndex(list[j].email)]_vars

\* C22 witness: a list on display whose first entry has more mutuals than the
\* second although the enumeration returned it later (the sort moved it up)
C22_SortedAhead ==
  \E u \in Uids :
    /\ Len(suggestedFriends[u]) >= 2
    /\ suggestedFriends[u][1].mutuals > suggestedFriends[u][2].mutuals
    /\ enumIndex(suggestedFriends[u][1].email) > enumIndex(suggestedFriends[u][2].email)

\* the users that both x and y list as friends
commonFriends(x, y) == {B \in Uids : lists(x, B) /\ lists(y, B)}

\* the run of instance u that is about to read works over a quiescent store:
\* no handler is between two store calls and the sets the run holds are those
\* of the caller's record
QuiescentRun(u) ==
  /\ \A w \in Uids : send[w].pc = "idle" /\ acc[w].pc = "idle" /\ rem[w].pc = "idle"
  /\ uid[u] # NULL /\ Head(calc[u]).user = user[u]
  /\ Elems(Head(calc[u]).friendEmails) = Elems(store[uid[u]].friends)
  /\ Elems(Head(calc[u]).requests) = Elems(store[uid[u]].requests)

\* the list holds the record of user v with k mutuals
Suggests(list, v, k) ==
  \E i \in DOMAIN list : list[i].email = store[v].email /\ list[i].mutuals = k

\* C23: when a run of caller C reads a quiescent store, every other user A
\* that C neither lists as friend nor holds a request of, and that has k >= 1
\* friends in common with C, is in the emitted list with mutual count k; this
\* holds for every caller, so C is in A's list with k as well. When the two
\* share exactly one friend B, B itself is not in the emitted list.
C23_SuggestionComplete ==
  [][\A u \in Uids : (Emits(u) /\ QuiescentRun(u)) =>
       \A A \in Uids \ {uid[u]} :
         LET k == Cardinality(commonFriends(uid[u], A)) IN
           (~lists(uid[u], A) /\ ~asks(uid[u], A) /\ k >= 1) =>
             /\ Suggests(suggestedFriends'[u], A, k)
             /\ k = 1 => \A B \in commonFriends(uid[u], A) \ {uid[u]} :
                           \A i \in DOMAIN suggestedFriends'[u] :
                             suggestedFriends'[u][i].email # store[B].email]_vars

\* C23 witness: two callers that are not friends share one friend, no handler
\* is running, and each has the other in its list with one mutual
C23_SuggestedBothWays ==
  \E x, y \in Uids :
    /\ x # y /\ uid[x] = x /\ uid[y] = y
    /\ ~lists(x, y) /\ ~lists(y, x) /\ ~asks(x, y) /\ ~asks(y, x)
    /\ Cardinality(commonFriends(x, y)) = 1
    /\ \A w \in Uids : send[w].pc = "idle" /\ acc[w].pc = "idle" /\ rem[w].pc = "idle"
    /\ Suggests(suggestedFriends[x], y, 1)
    /\ Suggests(suggestedFriends[y], x, 1)

\* user B is no friend of the account A of instance u any more and nothing of
\* a removal is outstanding: both records have dropped the other and the
\* removal handler of the instance has returned
RemovalCommitted(u, B) ==
  /\ uid[u] # NULL /\ B # uid[u]
  /\ rem[u].pc = "idle"
  /\ ~lists(uid[u], B) /\ ~lists(B, uid[u])

\* the run that is about to read counts B as a mutual friend of candidate X:
\* an e-mail of B is among X's friends and in the friend-email set the run uses
CountsAsMutual(u, B, X) ==
  \E e \in EmailsOf(B) :
    includes(store[X].friends, e) /\ includes(Head(calc[u]).friendEmails, e)

\* C24: once A has removed B and both writes of the removal are committed, no
\* list emitted for A has a third-party candidate for which B was counted as
\* a mutual friend, whenever the run that emits it was triggered.
C24_NoPhantomMutuals ==
  [][\A u \in Uids, B \in Uids : (Emits(u) /\ RemovalCommitted(u, B)) =>
       \A X \in Uids \ {uid[u], B} :
         (\E i \in DOMAIN suggestedFriends'[u] : suggestedFriends'[u][i].email = store[X].email)
           => ~CountsAsMutual(u, B, X)]_vars

\* the suggestion effect of instance u runs in this step
Triggered(u) == calcDeps'[u] # calcDeps[u]

\* C25: when the suggestion effect runs while no user is signed in or the
\* friend-email set is empty, the same step saves the empty list and no run
\* is left waiting at the stabilizer or at the user enumeration.
C25_EmptySetClears ==
  [][\A u \in Uids : (Triggered(u) /\ (user[u] = NULL \/ friendEmails[u] = <<>>)) =>
       /\ suggestedFriends'[u] = <<>>
       /\ calc'[u] = calc[u]]_vars

\* C25 witness: the effect has run for a signed-in caller whose record, as
\* delivered by its listener, lists no friend; the list is empty, nothing waits
C25_ClearedWithoutFriends ==
  \E u \in Uids :
    /\ user[u] # NULL /\ store[uid[u]] # NoDoc /\ ~pendingSnap[u]
    /\ friendEmails[u] = <<>>
    /\ calcDeps[u] = <<friendEmails[u], user[u], requests[u]>>
    /\ suggestedFriends[u] = <<>> /\ calc[u] = <<>>
    /\ \E v \in Uids \ {uid[u]} : store[v] # NoDoc /\ Len(store[v].friends) > 0

\* the write of a sendFriendRequest of instance u commits in this step
SendSucceeds(u) ==
  send[u].pc = "write" /\ last'.op = "send" /\ last'.by = u /\ last'.res = "sent"

\* C26: the step in which a sendFriendRequest succeeds changes nothing in the
\* store but the requests field of the target's record, which gains the
\* sender's e-mail: the sender's own record, the other fields of the target's
\* record and every other record are as before.
C26_SendFrame ==
  [][\A u \in Uids : SendSucceeds(u) =>
       LET t == send[u].tid IN
         /\ store'[uid[u]] = store[uid[u]]
         /\ \A v \in Uids \ {t} : store'[v] = store[v]
         /\ store'[t] = [store[t] EXCEPT !.requests = store'[t].requests]
         /\ \E e \in EmailsOf(uid[u]) :
              Elems(store'[t].requests) = Elems(store[t].requests) \cup {e}]_vars

\* the two-write handler h (acc or rem) of instance u ends in this step with a
\* rejected store call, at its first write / after its first write
FailsAtFirst(h, u) ==
  h[u].pc = "w1" /\ h'[u].pc = "idle" /\ last'.by = u /\ last'.res = "error"
FailsLater(h, u) ==
  h[u].pc \in {"lookup", "w2"} /\ h'[u].pc = "idle" /\ last'.by = u /\ last'.res = "error"

\* the step moves the two-write handler h of instance u and changes the
\* record of somebody else
WritesPeer(h, u) == h'[u] # h[u] /\ \E v \in Uids \ {uid[u]} : store'[v] # store[v]

\* C27: in acceptRequest and finalRemove the first write is the one to the
\* caller's own record and the handler goes on only when it has committed; the
\* peer's record is written only by the last step, after the lookup that
\* follows the committed own write. A rejected call, first or later, changes
\* no record and ends the handler, so what a failed operation leaves in the
\* store is what its first write did: where the first write of an accept
\* breaks the symmetry of caller and requester, the caller lists the requester
\* and not the reverse; where the first write of a removal does, the peer
\* lists the caller and not the reverse.
C27_WriteOrder ==
  [][\A u \in Uids :
       /\ (FailsAtFirst(acc, u) \/ FailsAtFirst(rem, u)) => store' = store
       /\ (FailsLater(acc, u) \/ FailsLater(rem, u)) => store' = store
       /\ (acc[u].pc = "w1" /\ acc'[u].pc # "w1") =>
            \/ FailsAtFirst(acc, u)
            \/ /\ acc'[u].pc = "lookup"
               /\ includes(store'[uid[u]].friends, acc[u].e)
               /\ ~includes(store'[uid[u]].requests, acc[u].e)
               /\ \A B \in ownersOf(acc[u].e) \ {uid[u]} :
                    (Symmetric(uid[u], B) /\ ~Symmetric(uid[u], B)') =>
                      (lists(uid[u], B)' /\ ~lists(B, uid[u])')
       /\ (rem[u].pc = "w1" /\ rem'[u].pc # "w1") =>
            \/ FailsAtFirst(rem, u)
            \/ /\ rem'[u].pc = "lookup"
               /\ ~includes(store'[uid[u]].friends, rem[u].e)
               /\ \A B \in ownersOf(rem[u].e) \ {uid[u]} :
                    (Symmetric(uid[u], B) /\ ~Symmetric(uid[u], B)') =>
                      (lists(B, uid[u])' /\ ~lists(uid[u], B)')
       /\ \A h \in {acc, rem} : h[u].pc # "w2" => ~WritesPeer(h, u)
       /\ (acc'[u].pc = "w2" => acc[u].pc \in {"lookup", "w2"})
       /\ (rem'[u].pc = "w2" => rem[u].pc \in {"lookup", "w2"})]_vars

\* C27 witness: an accept whose second write was rejected has ended; the
\* caller lists the requester and the requester does not list the caller
C27_FailedAcceptOneWay ==
  /\ last.op = "accept" /\ last.res = "error" /\ last.pre
  /\ \E B \in ownersOf(last.e) \ {uid[last.by]} :
       lists(uid[last.by], B) /\ ~lists(B, uid[last.by])

\* C28: the press of the toggle flips the local presence in the same step,
\* with the store as it was (the write is only issued). When the write is
\* rejected the store is unchanged, the local presence stays as the press left
\* it, and the rejection leaves toggleStatus to its caller: the handler never
\* ends as if written, or with a caught error, while the record is unchanged.
C28_OptimisticToggle ==
  [][\A u \in Uids :
       /\ (tog[u].pc = "idle" /\ tog'[u].pc = "write") =>
            /\ isInLibrary'[u] = ~isInLibrary[u]
            /\ isInLibrary'[u] = tog'[u].newState
            /\ store' = store
       /\ (tog[u].pc = "write" /\ tog'[u].pc = "idle") =>
            /\ last'.op = "toggle" /\ last'.by = u
            /\ \/ /\ last'.res = "written"
                  /\ store'[tog[u].uid] # NoDoc
                  /\ store'[tog[u].uid].isInLibrary = tog[u].newState
               \/ /\ last'.res = "rejected"
                  /\ store' = store
                  /\ isInLibrary'[u] = isInLibrary[u]]_vars

\* C28 witness: the write of a check-in was rejected by the store (the record
\* exists); the record says away and the instance shows present
C28_RejectedNotRolledBack ==
  /\ last.op = "toggle" /\ last.res = "rejected" /\ last.pre
  /\ store[last.e] # NoDoc /\ ~store[last.e].isInLibrary
  /\ isInLibrary[last.by]

\* the latest run of the suggestion effect of instance u found no user or no
\* friend e-mails: it has saved the empty list, after every run still waiting
ClearedLast(u) == calcDeps[u][2] = NULL \/ calcDeps[u][1] = <<>>

\* C29: a run of the suggestion effect that a later run has superseded does
\* not save its list once the later run has saved its own: no run that waited
\* at the stabilizer or at the user enumeration emits after a later run has
\* cleared the list for an empty friend-email set.
C29_EmittedInTriggerOrder ==
  [][\A u \in Uids : Emits(u) => ~ClearedLast(u)]_vars

\* the friend e-mails and the requests of the record of account v
ownFriendEmails(v) == IF store[v] = NoDoc THEN {} ELSE Elems(store[v].friends)
ownRequests(v) == IF store[v] = NoDoc THEN {} ELSE Elems(store[v].requests)

\* C30: when account Y signs in on an instance right after another account X
\* signed out of it, the membership query issued by the sign-in, and the
\* suggestion run started next, work on friend e-mails and requests of Y's own
\* record (or on none), not on the sets the instance holds from X's session.
C30_SessionIsolation ==
  [][\A u \in Uids :
       /\ (last'.op = "signIn" /\ last'.by = u /\ last'.pre) =>
            \A sub \in memberSub'[u] : Elems(sub.emails) \subseteq ownFriendEmails(uid'[u])
       /\ (last.op = "signIn" /\ last.by = u /\ last.pre /\ Len(calc'[u]) > Len(calc[u])) =>
            LET run == calc'[u][Len(calc'[u])] IN
              /\ Elems(run.friendEmails) \subseteq ownFriendEmails(uid[u])
              /\ Elems(run.requests) \subseteq ownRequests(uid[u])]_vars

\* the existing records whose email field is e
recordsOf(e) == {w \in Uids : store[w] # NoDoc /\ store[w].email = e}

\* C31: in every state of the store, every e-mail held in the friends or the
\* requests of a record is the email field of exactly one existing record
\* (so the lookups by e-mail of acceptRequest and finalRemove find the peer).
C31_RelationshipKeysResolve ==
  \A v \in Uids : store[v] # NoDoc =>
    \A e \in Elems(store[v].friends) \cup Elems(store[v].requests) :
      Cardinality(recordsOf(e)) = 1

\* the step belongs to the establishment of a session (the callback of
\* onAuthStateChanged moves on some instance)
Establishes == auth' # auth

\* C32: no step of a session establishment removes an entry from the friends
\* or the requests of a record that exists when the step is taken (the
\* creation write of a new user lands only where there is no record).
C32_SignInKeepsRelationships ==
  [][Establishes =>
       \A v \in Uids : store[v] # NoDoc =>
         /\ store'[v] # NoDoc
         /\ Elems(store[v].friends) \subseteq Elems(store'[v].friends)
         /\ Elems(store[v].requests) \subseteq Elems(store'[v].requests)]_vars

\* C33: in every state of the store and for every record, isInLibrary is true
\* exactly when lastCheckIn is set; session loads, staleness corrections and
\* toggles never leave a record present without a check-in time or absent
\* with one.
C33_PresenceTimestampCoupled ==
  \A v \in Uids : store[v] # NoDoc =>
    (store[v].isInLibrary <=> store[v].lastCheckIn # NoTime)

\* a session load has just corrected a stale check-in: the record was checked
\* in by a toggle, aged four hours, and is now absent without a check-in time
C33_StaleCheckInCorrected ==
  /\ last.op = "load"
  /\ last.res = "corrected"
  /\ \E v \in Uids :
       /\ last.e = v
       /\ store[v] # NoDoc
       /\ ~store[v].isInLibrary
       /\ store[v].lastCheckIn = NoTime
       /\ now >= StaleHours

\* the timer set by the add button of a suggestion fires on instance u
TimerFires(u) == send[u].pc = "timer" /\ send'[u].pc # "timer"

\* C34: the add button of the suggestion of person P results in a send whose
\* target is P's e-mail, whatever the input held before; it never sends to
\* another e-mail and never silently sends nothing.
C34_AddSuggestedTargetsPerson ==
  [][\A u \in Uids : TimerFires(u) =>
       /\ send'[u].pc = "lookup"
       /\ send'[u].e = send[u].person]_vars

====
